---- MODULE Spec2Model ----
(***************************************************************************)
(* A model of the onesecmail client library (package onesecmail,           *)
(* 1secmail.go lines 1-185 and domains.go).                                *)
(*                                                                         *)
(* Go strings are modelled as sequences of chunks.  A chunk is a piece of  *)
(* text; the chunk "@" is the only one that holds the character '@', and   *)
(* no chunk is a prefix of another, so two different chunk sequences are   *)
(* two different Go strings and the first '@' of a string is its first     *)
(* "@" chunk.                                                              *)
(***************************************************************************)
EXTENDS Integers, Sequences, FiniteSets, TLC

VARIABLES Domains, mailboxes, built, nDo, nOps, last

vars == <<Domains, mailboxes, built, nDo, nOps, last>>

\* ------------------------------------------------------------------ bounds
MaxMailboxes == 2
MaxCalls == 2
MaxAddrLen == 5
MaxN == 2

\* ----------------------------------------------------------------- strings
RECURSIVE SeqsUpTo(_, _)
SeqsUpTo(S, n) ==
    IF n = 0 THEN {<<>>}
    ELSE LET shorter == SeqsUpTo(S, n - 1)
         IN  shorter \cup {Append(s, c) : s \in {x \in shorter : Len(x) = n - 1}, c \in S}

Range(s) == {s[i] : i \in DOMAIN s}

Contains(s, chunk) == chunk \in Range(s)

\* strings.Cut(s, sep): the text before and after the first sep, and whether
\* sep was found; (s, "", false) when it was not.
Cut(s, sep) ==
    LET hits == {i \in DOMAIN s : s[i] = sep}
    IN  IF hits = {} THEN [before |-> s, after |-> <<>>, found |-> FALSE]
        ELSE LET i == CHOOSE j \in hits : \A k \in hits : j <= k
             IN  [before |-> SubSeq(s, 1, i - 1),
                  after |-> SubSeq(s, i + 1, Len(s)),
                  found |-> TRUE]

\* strconv.Itoa / fmt's %v of an int: the decimal text of n.
Itoa(n) == <<ToString(n)>>

\* ------------------------------------------------------------------ errors
\* A Go error value: nil, or a message with the error it wraps (%w), if any.
NilErr == [isNil |-> TRUE, msg |-> <<>>, cause |-> <<>>]

ErrorsNew(text) == [isNil |-> FALSE, msg |-> text, cause |-> <<>>]

\* What fmt prints for the %w verb: the error's message, or the bad-verb text
\* for a nil operand.
VerbW(err) == IF err.isNil THEN <<"%!w(<nil>)">> ELSE err.msg

\* fmt.Errorf(prefix + "%w" + suffix..., err, ...): the message, and err as the
\* wrapped error when it is not nil.
Errorf(prefix, err, suffix) ==
    [isNil |-> FALSE,
     msg |-> prefix \o VerbW(err) \o suffix,
     cause |-> IF err.isNil THEN <<>> ELSE <<err.msg>>]

\* fmt.Errorf with %s only: nothing is wrapped.
ErrorfS(prefix, text) == [isNil |-> FALSE, msg |-> prefix \o text, cause |-> <<>>]

\* errors.Is(e, target) for a leaf target.
Wraps(e, target) == ~e.isNil /\ ~target.isNil /\ e.cause = <<target.msg>>

\* ---------------------------------------------------------------- registry
InitDomains ==
    { <<"1secmail.com">>, <<"1secmail.org">>, <<"1secmail.net">>, <<"bheps.com">>,
      <<"dcctb.com">>, <<"kzccv.com">>, <<"qiott.com">>, <<"wuuvo.com">> }

\* ----------------------------------------------------------------- clients
NilClient == "nil"
DefaultClient == "http.DefaultClient"
MockClient == "mock"
ClientInputs == {NilClient, MockClient}

\* ------------------------------------------------------------ constructors
NewAPI(httpClient) ==
    IF httpClient = NilClient THEN [client |-> DefaultClient]
    ELSE [client |-> httpClient]

\* Mailbox{}: the zero value.
ZeroMailbox == [Login |-> <<>>, Domain |-> <<>>, API |-> [client |-> NilClient]]

\* Address with the separator forgotten.
AddressMutNoSep(m) == m.Login \o m.Domain

Address(m) == m.Login \o <<"@">> \o m.Domain

\* NewMailbox with the registry check forgotten.
NewMailboxMutNoCheck(login, domain, httpClient, registry) ==
    [mb |-> [Login |-> login, Domain |-> domain, API |-> NewAPI(httpClient)],
     err |-> NilErr]

NewMailbox(login, domain, httpClient, registry) ==
    IF domain \notin registry
    THEN [mb |-> ZeroMailbox, err |-> ErrorfS(<<"invalid domain", ": ">>, domain)]
    ELSE [mb |-> [Login |-> login, Domain |-> domain, API |-> NewAPI(httpClient)],
          err |-> NilErr]

\* NewMailboxWithAddress checking only that the separator was found.
NewMailboxWithAddressMutNoEmptyCheck(address, httpClient, registry) ==
    LET c == Cut(address, "@")
    IN  IF ~c.found
        THEN [mb |-> ZeroMailbox, err |-> ErrorfS(<<"invalid email address", ": ">>, address)]
        ELSE NewMailbox(c.before, c.after, httpClient, registry)

NewMailboxWithAddress(address, httpClient, registry) ==
    LET c == Cut(address, "@")
    IN  IF ~c.found \/ c.before = <<>> \/ c.after = <<>>
        THEN [mb |-> ZeroMailbox, err |-> ErrorfS(<<"invalid email address", ": ">>, address)]
        ELSE NewMailbox(c.before, c.after, httpClient, registry)

\* --------------------------------------------------------- request builder
\* mailboxAction: the iota constants.
getMessages == 0
readMessage == 1
download == 2
genRandomMailbox == 3
getDomainList == 4

ActionNames ==
    <<"getMessages", "readMessage", "download", "genRandomMailbox", "getDomainList">>

\* mailboxAction.String(): the array of names indexed by the action.
ActionString(m) == <<ActionNames[m + 1]>>

apiBase == <<"https://www.1secmail.com/api/v1/">>

\* url.Values.Add: append value to the list kept under key.
ValuesAdd(query, k, v) ==
    IF k \in DOMAIN query THEN [query EXCEPT ![k] = Append(@, v)]
    ELSE query @@ (k :> <<v>>)

\* for k, v := range args { query.Add(k, v) }, in any order of the keys.
RECURSIVE AddAll(_, _)
AddAll(query, args) ==
    IF DOMAIN args = {} THEN query
    ELSE LET k == CHOOSE x \in DOMAIN args : TRUE
             rest == [x \in DOMAIN args \ {k} |-> args[x]]
         IN  AddAll(ValuesAdd(query, k, args[k]), rest)

\* The query keys the library uses, in the byte order url.Values.Encode sorts by.
KeyOrder == <<"action", "count", "domain", "id", "login">>

RECURSIVE PairsOf(_, _)
PairsOf(k, vs) ==
    IF vs = <<>> THEN <<>> ELSE <<[key |-> k, value |-> Head(vs)]>> \o PairsOf(k, Tail(vs))

\* url.Values.Encode: the key=value pairs sorted by key, the values of one key
\* in the order they were added.
RECURSIVE EncodeFrom(_, _)
EncodeFrom(query, i) ==
    IF i > Len(KeyOrder) THEN <<>>
    ELSE (IF KeyOrder[i] \in DOMAIN query THEN PairsOf(KeyOrder[i], query[KeyOrder[i]])
          ELSE <<>>) \o EncodeFrom(query, i + 1)

ValuesEncode(query) == EncodeFrom(query, 1)

NoArgs == [x \in {} |-> <<>>]

\* constructRequest with the loop over args forgotten.
constructRequestMutNoArgs(method, action, args) ==
    [Method |-> method, URL |-> apiBase,
     RawQuery |-> ValuesEncode(ValuesAdd(NoArgs, "action", ActionString(action)))]

\* API.constructRequest: a request to apiBase whose query is action plus args.
constructRequest(method, action, args) ==
    LET query == AddAll(ValuesAdd(NoArgs, "action", ActionString(action)), args)
    IN  [Method |-> method, URL |-> apiBase, RawQuery |-> ValuesEncode(query)]

\* -------------------------------------------------------------------- JSON
\* A response body is a sequence of JSON lexemes: the punctuation of arrays,
\* null, whole string literals, whole objects, and "#" for bytes that begin no
\* JSON value.  The text of the body is the concatenation of its lexemes.
S1 == "\"zwjx7z@qiott.com\""
S2 == "\"1secmail.org\""
M1 == "{\"id\":639,\"from\":\"someone@example.com\",\"subject\":\"Some subject\",\"date\":\"2018-06-08 14:33:55\"}"
M2 == "{\"id\":640,\"from\":\"email\",\"subject\":\"subject\",\"date\":\"2018-06-08 14:40:55\",\"attachments\":[{\"filename\":\"a.txt\",\"contentType\":\"text/plain\",\"size\":3}],\"body\":\"b\",\"textBody\":\"text\",\"htmlBody\":\"html\"}"
BadM == "{\"id\":\"639\",\"from\":\"email\"}"

StrLexemes == {S1, S2}
ObjLexemes == {M1, M2, BadM}
Scalars == StrLexemes \cup ObjLexemes \cup {"null"}

\* The Go string a JSON string literal stands for.
StringValue(lex) ==
    IF lex = S1 THEN <<"zwjx7z", "@", "qiott.com">> ELSE <<"1secmail.org">>

\* The members of a JSON object, by key: absent, a number, a string or (for
\* attachments) an array of attachment objects.
JAbsent == [t |-> "absent", n |-> 0, s |-> <<>>, a |-> <<>>]
JNum(n) == [t |-> "num", n |-> n, s |-> <<>>, a |-> <<>>]
JStr(s) == [t |-> "str", n |-> 0, s |-> s, a |-> <<>>]
JArr(a) == [t |-> "arr", n |-> 0, s |-> <<>>, a |-> a]

ObjectMembers(lex) ==
    IF lex = M1 THEN
        [id |-> JNum(639), from |-> JStr(<<"someone", "@", "example.com">>),
         subject |-> JStr(<<"Some subject">>), date |-> JStr(<<"2018-06-08 14:33:55">>),
         attachments |-> JAbsent, body |-> JAbsent, textBody |-> JAbsent,
         htmlBody |-> JAbsent]
    ELSE IF lex = M2 THEN
        [id |-> JNum(640), from |-> JStr(<<"email">>),
         subject |-> JStr(<<"subject">>), date |-> JStr(<<"2018-06-08 14:40:55">>),
         attachments |-> JArr(<<[Filename |-> <<"a.txt">>, ContentType |-> <<"text/plain">>,
                                 Size |-> 3]>>),
         body |-> JStr(<<"b">>), textBody |-> JStr(<<"text">>),
         htmlBody |-> JStr(<<"html">>)]
    ELSE
        [id |-> JStr(<<"639">>), from |-> JStr(<<"email">>),
         subject |-> JAbsent, date |-> JAbsent,
         attachments |-> JAbsent, body |-> JAbsent, textBody |-> JAbsent,
         htmlBody |-> JAbsent]

\* A pointer: nil, or the value it points at.
NilPtr == <<>>
PtrTo(v) == <<v>>

\* A result of an operation: nil, or a value.
Nil == [isNil |-> TRUE, v |-> <<>>]
Some(v) == [isNil |-> FALSE, v |-> v]

\* The scanner of json.Decoder: the length of the first JSON value of body, or
\* the reason there is none.  What follows the value is not read.
RECURSIVE ScanFrom(_, _, _, _)
ScanFrom(body, i, depth, expect) ==
    IF i > Len(body) THEN [err |-> IF i = 1 THEN "EOF" ELSE "unexpected EOF", n |-> 0]
    ELSE LET tok == body[i]
             after == IF depth = 0 THEN [err |-> "", n |-> i]
                      ELSE ScanFrom(body, i + 1, depth, "commaOrEnd")
         IN  CASE expect \in {"value", "valueOrEnd"} /\ tok \in Scalars -> after
               [] expect \in {"value", "valueOrEnd"} /\ tok = "[" ->
                      ScanFrom(body, i + 1, depth + 1, "valueOrEnd")
               [] expect \in {"valueOrEnd", "commaOrEnd"} /\ tok = "]" /\ depth > 0 ->
                      IF depth = 1 THEN [err |-> "", n |-> i]
                      ELSE ScanFrom(body, i + 1, depth - 1, "commaOrEnd")
               [] expect = "commaOrEnd" /\ tok = "," -> ScanFrom(body, i + 1, depth, "value")
               [] OTHER -> [err |-> "invalid character", n |-> 0]

ReadValue(body) == ScanFrom(body, 1, 0, "value")

\* The elements of a scanned array value whose elements are scalars.
ArrayElements(value) == [i \in 1..((Len(value) - 1) \div 2) |-> value[2 * i]]

UnmarshalTypeError == "json: cannot unmarshal"

\* A string member into a string field: absent leaves the zero value.
StringField(m) == IF m.t = "str" THEN m.s ELSE <<>>

\* A string member into a *string field: absent leaves nil.
\* A *string field set to a pointer to "" when the member is absent.
StringPtrFieldMutEmpty(m) == IF m.t = "str" THEN PtrTo(m.s) ELSE PtrTo(<<>>)

StringPtrField(m) == IF m.t = "str" THEN PtrTo(m.s) ELSE NilPtr

\* An object into a Mail, by the struct's json tags.
UnmarshalMail(lex) ==
    LET o == ObjectMembers(lex)
        bad == \/ o.id.t \notin {"absent", "num"}
               \/ \E k \in {"from", "subject", "date", "body", "textBody", "htmlBody"} :
                      o[k].t \notin {"absent", "str"}
               \/ o.attachments.t \notin {"absent", "arr"}
    IN  [ok |-> ~bad,
         mail |-> [ID |-> IF o.id.t = "num" THEN o.id.n ELSE 0,
                   From |-> StringField(o.from),
                   Subject |-> StringField(o.subject),
                   Date |-> StringField(o.date),
                   Attachments |-> o.attachments.a,
                   Body |-> StringPtrField(o.body),
                   TextBody |-> StringPtrField(o.textBody),
                   HTMLBody |-> StringPtrField(o.htmlBody)]]

\* One array element into a string / a *Mail; null leaves the zero value.
UnmarshalElement(tok, kind) ==
    IF tok = "null" THEN [ok |-> TRUE, v |-> IF kind = "[]string" THEN <<>> ELSE NilPtr]
    ELSE IF kind = "[]string"
    THEN [ok |-> tok \in StrLexemes, v |-> IF tok \in StrLexemes THEN StringValue(tok) ELSE <<>>]
    ELSE IF tok \in ObjLexemes
         THEN [ok |-> UnmarshalMail(tok).ok, v |-> PtrTo(UnmarshalMail(tok).mail)]
         ELSE [ok |-> FALSE, v |-> NilPtr]

DecodeErr(text) == [ok |-> FALSE, v |-> Nil, err |-> ErrorsNew(<<text>>)]

\* The first JSON value of the body into a target of the given kind:
\* "[]string", "[]*Mail" or "*Mail".
Unmarshal(value, kind) ==
    IF value = <<"null">> THEN [ok |-> TRUE, v |-> Nil, err |-> NilErr]
    ELSE IF kind = "*Mail"
    THEN IF Len(value) = 1 /\ value[1] \in ObjLexemes /\ UnmarshalMail(value[1]).ok
         THEN [ok |-> TRUE, v |-> Some(UnmarshalMail(value[1]).mail), err |-> NilErr]
         ELSE DecodeErr(UnmarshalTypeError)
    ELSE IF value[1] # "[" THEN DecodeErr(UnmarshalTypeError)
    ELSE IF \E i \in 2..(Len(value) - 1) : value[i] \in {"[", "]"}
    THEN DecodeErr(UnmarshalTypeError)
    ELSE LET elems == ArrayElements(value)
             got == [i \in DOMAIN elems |-> UnmarshalElement(elems[i], kind)]
         IN  IF \A i \in DOMAIN got : got[i].ok
             THEN [ok |-> TRUE, v |-> Some([i \in DOMAIN got |-> got[i].v]), err |-> NilErr]
             ELSE DecodeErr(UnmarshalTypeError)

\* Decode as json.Unmarshal would: bytes after the first value are an error.
DecodeMutWholeBody(body, kind) ==
    LET r == ReadValue(body)
    IN  IF r.err # "" THEN DecodeErr(r.err)
        ELSE IF r.n # Len(body) THEN DecodeErr("invalid character")
        ELSE Unmarshal(SubSeq(body, 1, r.n), kind)

\* json.NewDecoder(body).Decode(&target): scan the first value, then unmarshal it.
Decode(body, kind) ==
    LET r == ReadValue(body)
    IN  IF r.err # "" THEN DecodeErr(r.err)
        ELSE Unmarshal(SubSeq(body, 1, r.n), kind)

\* --------------------------------------------------------------- transport
\* What HTTPClient.Do returns: a response (or nil) and an error (or nil).
NilResp == [isNil |-> TRUE, StatusCode |-> 0, Body |-> <<>>]
Resp(code, body) == [isNil |-> FALSE, StatusCode |-> code, Body |-> body]

\* ------------------------------------------------------- remote operations
\* What a call of a remote operation did: the value and error it returned, or
\* that it panicked; the requests it handed to the transport, in order; and how
\* many times it closed the response body.
Returned(res, err, reqs, closes) ==
    [res |-> res, err |-> err, panicked |-> FALSE, reqs |-> reqs, closes |-> closes]

\* A nil pointer dereference: the call does not return.
Panicked(reqs) ==
    [res |-> Nil, err |-> NilErr, panicked |-> TRUE, reqs |-> reqs, closes |-> 0]

\* The common tail of the four operations: defer resp.Body.Close(), decode the
\* body, wrap a decode failure.
DecodeBody(resp, kind, reqs) ==
    IF resp.isNil THEN Panicked(reqs)
    ELSE LET d == Decode(resp.Body, kind)
         IN  IF ~d.ok
             THEN Returned(Nil, Errorf(<<"decode JSON failed", ": ">>, d.err, <<>>), reqs, 1)
             ELSE Returned(d.v, NilErr, reqs, 1)

Failed(t) == ~t.err.isNil \/ (~t.resp.isNil /\ t.resp.StatusCode # 200)

RandomAddresses(a, count, t) ==
    LET req == constructRequest("GET", genRandomMailbox, [count |-> Itoa(count)])
    IN  IF Failed(t)
        THEN Returned(Nil, Errorf(<<"generate random mailbox failed", ": ">>, t.err, <<>>),
                      <<req>>, 0)
        ELSE DecodeBody(t.resp, "[]string", <<req>>)

API_Domains(a, t) ==
    LET req == constructRequest("GET", getDomainList, NoArgs)
    IN  IF Failed(t)
        THEN Returned(Nil, Errorf(<<"get domain list failed", ": ">>, t.err, <<>>), <<req>>, 0)
        ELSE DecodeBody(t.resp, "[]string", <<req>>)

CheckInbox(m, t) ==
    LET req == constructRequest("GET", getMessages, [login |-> m.Login, domain |-> m.Domain])
    IN  IF Failed(t)
        THEN IF t.resp.isNil THEN Panicked(<<req>>)
             ELSE Returned(Nil,
                           Errorf(<<"check inbox failed", ": ">>, t.err,
                                  <<", error code: ">> \o Itoa(t.resp.StatusCode)),
                           <<req>>, 0)
        ELSE DecodeBody(t.resp, "[]*Mail", <<req>>)

\* ReadMessage trying the request once more when the first try failed.
ReadMessageMutRetry(m, messageID, t) ==
    LET req == constructRequest("GET", readMessage,
                                [login |-> m.Login, domain |-> m.Domain,
                                 id |-> Itoa(messageID)])
    IN  IF Failed(t)
        THEN Returned(Nil, Errorf(<<"read message failed", ": ">>, t.err, <<>>),
                      <<req, req>>, 0)
        ELSE DecodeBody(t.resp, "*Mail", <<req>>)

ReadMessage(m, messageID, t) ==
    LET req == constructRequest("GET", readMessage,
                                [login |-> m.Login, domain |-> m.Domain,
                                 id |-> Itoa(messageID)])
    IN  IF Failed(t)
        THEN Returned(Nil, Errorf(<<"read message failed", ": ">>, t.err, <<>>), <<req>>, 0)
        ELSE DecodeBody(t.resp, "*Mail", <<req>>)

\* ------------------------------------------------------------------ inputs
\* The chunks addresses are built from.
AddrChunks == {"@", "user", "1secmail.com"}
Addresses == SeqsUpTo(AddrChunks, MaxAddrLen)

WideLogins == SeqsUpTo({"user", "@"}, 2)
WideDomains ==
    InitDomains \cup {<<>>, <<"example.com">>, <<"foobar.com">>, <<"1secmail.com", "@">>,
                      <<"user", "@", "1secmail.com">>, <<"1secmail.com", "1secmail.com">>}

\* The mailboxes a caller goes on to use.
LoginInputs == {<<>>, <<"user">>}
DomainInputs == {<<"1secmail.org">>, <<"foobar.com">>}
AddressInputs == {<<"user", "@", "1secmail.org">>, <<"foobar.com">>}

IdInputs == {-1, 639}
CountInputs == {0, 2}
StatusCodes == {200, 404, 500}

\* A server writing a JSON array: the elements between brackets, separated by commas.
RECURSIVE EncodeElements(_)
EncodeElements(xs) ==
    IF xs = <<>> THEN <<>>
    ELSE IF Len(xs) = 1 THEN <<xs[1]>>
    ELSE <<xs[1], ",">> \o EncodeElements(Tail(xs))

EncodeArray(xs) == <<"[">> \o EncodeElements(xs) \o <<"]">>

Elems == {S1, S2, M1, M2}
Lists == SeqsUpTo(Elems, MaxN)

\* Whole bodies: arrays of up to MaxN elements and single objects.
Encodings == {EncodeArray(xs) : xs \in Lists} \cup {<<o>> : o \in ObjLexemes}

\* The bodies a transport hands back: whole ones, every truncation of one (the
\* empty body among them), whole ones followed by more bytes, null, an array of
\* null, and bytes that are no JSON at all.
Bodies ==
    UNION {{SubSeq(e, 1, k) : k \in 0..Len(e)} : e \in Encodings}
    \cup {e \o <<"#">> : e \in {EncodeArray(<<S1>>), EncodeArray(<<M1>>), <<M2>>}}
    \cup {<<"null">>, <<"null", "#">>, <<"[", "null", "]">>, <<"#">>}

ErrBodies == {<<>>, EncodeArray(<<S1>>), EncodeArray(<<M1>>), <<M1>>}

TransportErrs == {ErrorsNew(<<"connection refused">>)}

TransportOutcomes ==
    {[resp |-> Resp(200, b), err |-> NilErr] : b \in Bodies}
    \cup {[resp |-> Resp(c, b), err |-> NilErr] : c \in StatusCodes \ {200}, b \in ErrBodies}
    \cup {[resp |-> r, err |-> e] :
            r \in {NilResp} \cup {Resp(c, b) : c \in StatusCodes, b \in ErrBodies},
            e \in TransportErrs}
    \cup {[resp |-> NilResp, err |-> NilErr]}

\* The API values a caller can hold: NewAPI's results, which are also the API
\* embedded in every Mailbox.
APIs == {NewAPI(c) : c \in ClientInputs}

\* ------------------------------------------------------------------- state
Init ==
    /\ Domains = InitDomains
    /\ mailboxes = <<>>
    /\ built = <<>>
    /\ nDo = 0
    /\ nOps = 0
    /\ last = [op |-> "none"]

RemoteOps == {"CheckInbox", "ReadMessage", "RandomAddresses", "Domains"}

\* The caller is between calls; otherwise last is the call that just ended.
Idle == last.op = "none"

\* A panic that nothing recovers ends the process.
Aborted == last.op \in RemoteOps /\ last.ret.panicked

\* The caller has looked at what the call returned and goes on.
CallerContinues ==
    /\ ~Idle
    /\ ~Aborted
    /\ last' = [op |-> "none"]
    /\ UNCHANGED <<Domains, mailboxes, built, nDo, nOps>>

NewAPICall(c) ==
    /\ Idle
    /\ last' = [op |-> "NewAPI", client |-> c, api |-> NewAPI(c)]
    /\ UNCHANGED <<Domains, mailboxes, built, nDo, nOps>>

\* The caller asks the mailbox it got for its Address(), and keeps the mailbox
\* (keep) or drops it.
Construct(r, keep) ==
    /\ Idle
    /\ keep => (Len(mailboxes) < MaxMailboxes /\ r.err.isNil)
    /\ mailboxes' = IF keep THEN Append(mailboxes, r.mb) ELSE mailboxes
    /\ built' = IF keep THEN Append(built, r.mb) ELSE built
    /\ UNCHANGED <<Domains, nDo, nOps>>

NewMailboxCall(login, domain, c, keep) ==
    LET r == NewMailbox(login, domain, c, Domains)
    IN  /\ Construct(r, keep)
        /\ last' = [op |-> "NewMailbox", login |-> login, domain |-> domain,
                    client |-> c, mb |-> r.mb, err |-> r.err, addr |-> Address(r.mb)]

NewMailboxWithAddressCall(address, c, keep) ==
    LET r == NewMailboxWithAddress(address, c, Domains)
    IN  /\ Construct(r, keep)
        /\ last' = [op |-> "NewMailboxWithAddress", address |-> address,
                    client |-> c, mb |-> r.mb, err |-> r.err, addr |-> Address(r.mb)]

\* A remote operation ran: it handed ret.reqs to the transport, one Do each.
Remote(ret) ==
    /\ Idle
    /\ nOps < MaxCalls
    /\ nOps' = nOps + 1
    /\ nDo' = nDo + Len(ret.reqs)
    /\ UNCHANGED <<Domains, mailboxes, built>>

\* CheckInbox on a pointer receiver that blanks the login it has sent.
CheckInboxCallMutWritesMailbox(i, t) ==
    LET ret == CheckInbox(mailboxes[i], t)
    IN  /\ Idle
        /\ nOps < MaxCalls
        /\ nOps' = nOps + 1
        /\ nDo' = nDo + Len(ret.reqs)
        /\ mailboxes' = [mailboxes EXCEPT ![i].Login = <<>>]
        /\ UNCHANGED <<Domains, built>>
        /\ last' = [op |-> "CheckInbox", idx |-> i, trans |-> t, ret |-> ret]

CheckInboxCall(i, t) ==
    LET ret == CheckInbox(mailboxes[i], t)
    IN  /\ Remote(ret)
        /\ last' = [op |-> "CheckInbox", idx |-> i, trans |-> t, ret |-> ret]

ReadMessageCall(i, messageID, t) ==
    LET ret == ReadMessage(mailboxes[i], messageID, t)
    IN  /\ Remote(ret)
        /\ last' = [op |-> "ReadMessage", idx |-> i, id |-> messageID, trans |-> t,
                    ret |-> ret]

RandomAddressesCall(a, count, t) ==
    LET ret == RandomAddresses(a, count, t)
    IN  /\ Remote(ret)
        /\ last' = [op |-> "RandomAddresses", api |-> a, count |-> count, trans |-> t,
                    ret |-> ret]

DomainsCall(a, t) ==
    LET ret == API_Domains(a, t)
    IN  /\ Remote(ret)
        /\ last' = [op |-> "Domains", api |-> a, trans |-> t, ret |-> ret]

\* The outcomes of a transport a caller meets in a run of several calls: a
\* listing, an empty body, a server error, a refused connection (with and
\* without a response) and no response at all.
SomeOutcomes ==
    { [resp |-> Resp(200, EncodeArray(<<M1>>)), err |-> NilErr],
      [resp |-> Resp(200, <<M2>>), err |-> NilErr],
      [resp |-> Resp(200, <<>>), err |-> NilErr],
      [resp |-> Resp(500, <<>>), err |-> NilErr],
      [resp |-> NilResp, err |-> ErrorsNew(<<"connection refused">>)],
      [resp |-> Resp(500, <<>>), err |-> ErrorsNew(<<"connection refused">>)],
      [resp |-> NilResp, err |-> NilErr] }

\* Any sequence of calls: the caller builds mailboxes, keeps some, and calls the
\* remote operations on what it holds.
Next ==
    \/ \E c \in ClientInputs : NewAPICall(c)
    \/ \E l \in LoginInputs, d \in DomainInputs, c \in ClientInputs, keep \in BOOLEAN :
           NewMailboxCall(l, d, c, keep)
    \/ \E ad \in AddressInputs, c \in ClientInputs, keep \in BOOLEAN :
           NewMailboxWithAddressCall(ad, c, keep)
    \/ \E i \in DOMAIN mailboxes, t \in SomeOutcomes : CheckInboxCall(i, t)
    \/ \E i \in DOMAIN mailboxes, id \in IdInputs, t \in SomeOutcomes :
           ReadMessageCall(i, id, t)
    \/ \E a \in APIs, n \in CountInputs, t \in SomeOutcomes : RandomAddressesCall(a, n, t)
    \/ \E a \in APIs, t \in SomeOutcomes : DomainsCall(a, t)
    \/ CallerContinues

Spec == Init /\ [][Next]_vars

\* Every call over every input of the bounds, on one mailbox the caller built
\* before; the caller drops the mailboxes it builds here.
InitWide ==
    /\ Domains = InitDomains
    /\ mailboxes \in {<<NewMailbox(l, d, c, InitDomains).mb>> :
                        l \in LoginInputs, d \in DomainInputs \cap InitDomains,
                        c \in ClientInputs}
    /\ built = mailboxes
    /\ nDo = 0
    /\ nOps = 0
    /\ last = [op |-> "none"]

NextWide ==
    \/ \E c \in ClientInputs : NewAPICall(c)
    \/ \E l \in WideLogins, d \in WideDomains, c \in ClientInputs :
           NewMailboxCall(l, d, c, FALSE)
    \/ \E ad \in Addresses, c \in ClientInputs : NewMailboxWithAddressCall(ad, c, FALSE)
    \/ \E i \in DOMAIN mailboxes, t \in TransportOutcomes : CheckInboxCall(i, t)
    \/ \E i \in DOMAIN mailboxes, id \in IdInputs, t \in TransportOutcomes :
           ReadMessageCall(i, id, t)
    \/ \E a \in APIs, n \in CountInputs, t \in TransportOutcomes : RandomAddressesCall(a, n, t)
    \/ \E a \in APIs, t \in TransportOutcomes : DomainsCall(a, t)
    \/ CallerContinues

SpecWide == InitWide /\ [][NextWide]_vars

\* ================================================================== claims
TransportFailed == last.op \in RemoteOps /\ ~last.trans.err.isNil

StatusFailed ==
    /\ last.op \in RemoteOps
    /\ last.trans.err.isNil
    /\ ~last.trans.resp.isNil
    /\ last.trans.resp.StatusCode # 200

\* The name phrase of each remote operation's error.
OpPhrase(op) ==
    CASE op = "CheckInbox" -> "check inbox failed"
      [] op = "ReadMessage" -> "read message failed"
      [] op = "RandomAddresses" -> "generate random mailbox failed"
      [] op = "Domains" -> "get domain list failed"

\* C1: whenever the transport's Do returns a non-nil error, with or without a
\* response, the remote operation returns (it does not panic) a nil result and
\* an error that wraps the transport's error.
C1_TransportErrorIsReturned ==
    TransportFailed =>
        /\ ~last.ret.panicked
        /\ last.ret.res.isNil
        /\ Wraps(last.ret.err, last.trans.err)

\* C2: when the transport returns no error and a response whose status is not
\* 200, the remote operation returns a nil result and an error whose message
\* holds the operation's name phrase and the status code in decimal.
C2_StatusErrorNamesOperationAndCode ==
    StatusFailed =>
        /\ ~last.ret.panicked
        /\ last.ret.res.isNil
        /\ ~last.ret.err.isNil
        /\ Contains(last.ret.err.msg, OpPhrase(last.op))
        /\ Contains(last.ret.err.msg, ToString(last.trans.resp.StatusCode))

\* --- the shape of an address, said without strings.Cut
AtCount(a) == Cardinality({i \in DOMAIN a : a[i] = "@"})

\* Exactly one '@', with text before it and text after it.
WellFormed(a) == AtCount(a) = 1 /\ a[1] # "@" /\ a[Len(a)] # "@"

\* No '@' at all, nothing before the first '@', or nothing after the first '@'.
FailsAddressCheck(a) ==
    \/ AtCount(a) = 0
    \/ a[1] = "@"
    \/ (AtCount(a) = 1 /\ a[Len(a)] = "@")

IsInvalidAddress(err) == ~err.isNil /\ err.msg[1] = "invalid email address"
IsInvalidDomain(err) == ~err.isNil /\ err.msg[1] = "invalid domain"

\* C3, as claimed: NewMailboxWithAddress fails with the "invalid address"
\* error for every address that is not one '@' between a non-empty login and a
\* non-empty domain, two or more '@' included.
C3_MalformedIsInvalidAddress ==
    (last.op = "NewMailboxWithAddress" /\ ~WellFormed(last.address)) =>
        IsInvalidAddress(last.err)

\* C3, amended: NewMailboxWithAddress fails with the "invalid address" error
\* exactly for the addresses with no '@', with nothing before the first '@' or
\* with nothing after it; every address that is not well formed fails, with
\* the zero Mailbox; one with two or more '@' and text on both sides of the
\* first fails in NewMailbox with the "invalid domain" error, whose domain is
\* everything after the first '@'.
C3_AddressCheck ==
    last.op = "NewMailboxWithAddress" =>
        /\ IsInvalidAddress(last.err) <=> FailsAddressCheck(last.address)
        /\ ~WellFormed(last.address) => (~last.err.isNil /\ last.mb = ZeroMailbox)
        /\ (~WellFormed(last.address) /\ ~FailsAddressCheck(last.address)) =>
               /\ IsInvalidDomain(last.err)
               /\ AtCount(last.address) >= 2
        /\ IsInvalidDomain(last.err) => ~FailsAddressCheck(last.address)

C3_Witness ==
    /\ last.op = "NewMailboxWithAddress"
    /\ last.address = <<"user", "@", "1secmail.com", "@", "user">>
    /\ IsInvalidDomain(last.err)
    /\ last.err.msg = <<"invalid domain", ": ", "1secmail.com", "@", "user">>

\* C4: NewMailbox fails exactly when the domain is not in the Domains
\* registry, whatever the login and the client; a failure returns the zero
\* Mailbox, a success a Mailbox with the login and domain given.
C4_NewMailboxChecksDomain ==
    last.op = "NewMailbox" =>
        /\ ~last.err.isNil <=> last.domain \notin Domains
        /\ ~last.err.isNil => last.mb = ZeroMailbox
        /\ last.err.isNil => (last.mb.Login = last.login /\ last.mb.Domain = last.domain)

C4_Witness ==
    /\ last.op = "NewMailbox"
    /\ last.login = <<>>
    /\ last.client = NilClient
    /\ last.domain = <<"wuuvo.com">>
    /\ last.err.isNil
    /\ last.mb.Domain = <<"wuuvo.com">>

\* C5: for an address login@domain with a non-empty login free of '@' and a
\* registered domain, NewMailboxWithAddress succeeds and Address() of the
\* mailbox is the address given; and Address() of a mailbox NewMailbox
\* returned is login + "@" + domain.
C5_AddressRoundTrip ==
    /\ (/\ last.op = "NewMailboxWithAddress"
        /\ \E i \in DOMAIN last.address :
              /\ last.address[i] = "@"
              /\ i > 1
              /\ "@" \notin Range(SubSeq(last.address, 1, i - 1))
              /\ SubSeq(last.address, i + 1, Len(last.address)) \in Domains)
       => (last.err.isNil /\ last.addr = last.address)
    /\ (last.op = "NewMailbox" /\ last.err.isNil)
       => last.addr = last.login \o <<"@">> \o last.domain

C5_Witness ==
    /\ last.op = "NewMailboxWithAddress"
    /\ last.address = <<"user", "user", "@", "1secmail.com">>
    /\ last.err.isNil
    /\ last.addr = last.address

\* --- bodies, said without the decoder
IsDecodeError(err) == ~err.isNil /\ err.msg[1] = "decode JSON failed"

Status200 == last.trans.err.isNil /\ ~last.trans.resp.isNil
             /\ last.trans.resp.StatusCode = 200

\* The element lexemes of the operation's shape: strings for the two lists of
\* strings, objects whose members have the types of Mail for the other two.
WellTypedObjects == {M1, M2}
ShapeElems(op) ==
    IF op \in {"RandomAddresses", "Domains"} THEN StrLexemes ELSE WellTypedObjects

\* The body is one JSON document of the operation's shape: an array of its
\* elements for the three lists, an object for ReadMessage.
ValidShape(op, body) ==
    IF op = "ReadMessage" THEN body \in {<<o>> : o \in WellTypedObjects}
    ELSE body \in {EncodeArray(xs) : xs \in SeqsUpTo(ShapeElems(op), MaxN)}

\* What the decoder takes: null, or a value of the shape in which null may
\* stand for an element.
TakenValues(op) ==
    {<<"null">>} \cup
    (IF op = "ReadMessage" THEN {<<o>> : o \in WellTypedObjects}
     ELSE {EncodeArray(xs) : xs \in SeqsUpTo(ShapeElems(op) \cup {"null"}, MaxN)})

\* The body starts with a value the decoder takes.
StartsWithTakenValue(op, body) ==
    \E k \in 1..Len(body) : SubSeq(body, 1, k) \in TakenValues(op)

\* C6, as claimed: the "decode JSON failed" error is returned exactly when the
\* transport returned no error, the status is 200 and the body is not valid
\* JSON of the operation's shape; the result is then nil.
C6_DecodeErrorIffInvalidBody ==
    (last.op \in RemoteOps /\ ~last.ret.panicked) =>
        /\ IsDecodeError(last.ret.err)
               <=> (Status200 /\ ~ValidShape(last.op, last.trans.resp.Body))
        /\ IsDecodeError(last.ret.err) => last.ret.res.isNil

\* C6, amended: the "decode JSON failed" error is returned exactly when the
\* transport returned no error, the status is 200 and the body does not start
\* with a JSON value the decoder takes for the operation (null, or a value of
\* the operation's shape); the result is then nil.  A body that is null gives
\* a nil result with a nil error, and what follows the first value is not
\* read.  The error is never produced on a transport error or another status.
C6_DecodeErrorIffUndecodable ==
    (last.op \in RemoteOps /\ ~last.ret.panicked) =>
        /\ IsDecodeError(last.ret.err)
               <=> (Status200 /\ ~StartsWithTakenValue(last.op, last.trans.resp.Body))
        /\ IsDecodeError(last.ret.err) => last.ret.res.isNil
        /\ (Status200 /\ last.trans.resp.Body # <<>> /\ last.trans.resp.Body[1] = "null")
               => (last.ret.err.isNil /\ last.ret.res.isNil)

C6_Witness ==
    /\ last.op = "CheckInbox"
    /\ Status200
    /\ last.trans.resp.Body = <<"[", M1, ",">>
    /\ IsDecodeError(last.ret.err)
    /\ last.ret.err.cause = <<(<<"unexpected EOF">>)>>
    /\ last.ret.res.isNil

\* C7: with no transport error, status 200 and a body that is a JSON array of
\* N elements of the operation's shape, CheckInbox, Domains and RandomAddresses
\* return a nil error and N values in the order of the array; each Mail of
\* CheckInbox has the id, from, subject and date of its element, and nil
\* Body, TextBody and HTMLBody when the element has no such member;
\* RandomAddresses returns the N elements whatever count was asked for.
C7_ListIsDecodedInOrder ==
    (last.op \in {"CheckInbox", "Domains", "RandomAddresses"} /\ Status200) =>
        \A xs \in SeqsUpTo(ShapeElems(last.op), MaxN) :
            last.trans.resp.Body = EncodeArray(xs) =>
                /\ ~last.ret.panicked
                /\ last.ret.err.isNil
                /\ ~last.ret.res.isNil
                /\ Len(last.ret.res.v) = Len(xs)
                /\ \A i \in DOMAIN xs :
                       IF last.op = "CheckInbox"
                       THEN LET o == ObjectMembers(xs[i])
                                m == last.ret.res.v[i]
                            IN  /\ m # NilPtr
                                /\ m[1].ID = o.id.n
                                /\ m[1].From = o.from.s
                                /\ m[1].Subject = o.subject.s
                                /\ m[1].Date = o.date.s
                                /\ o.body.t = "absent" => m[1].Body = NilPtr
                                /\ o.textBody.t = "absent" => m[1].TextBody = NilPtr
                                /\ o.htmlBody.t = "absent" => m[1].HTMLBody = NilPtr
                       ELSE last.ret.res.v[i] = StringValue(xs[i])

C7_Witness ==
    /\ last.op = "CheckInbox"
    /\ Status200
    /\ last.trans.resp.Body = <<"[", M2, ",", M1, "]">>
    /\ last.ret.err.isNil
    /\ Len(last.ret.res.v) = 2
    /\ last.ret.res.v[1][1].ID = 640
    /\ last.ret.res.v[2][1].ID = 639
    /\ last.ret.res.v[2][1].Body = NilPtr

\* --- the query each operation is to send
Param(k, v) == [key |-> k, value |-> v]

ExpectedQuery ==
    CASE last.op = "Domains" -> {Param("action", <<"getDomainList">>)}
      [] last.op = "RandomAddresses" ->
             {Param("action", <<"genRandomMailbox">>),
              Param("count", <<ToString(last.count)>>)}
      [] last.op = "CheckInbox" ->
             {Param("action", <<"getMessages">>),
              Param("login", mailboxes[last.idx].Login),
              Param("domain", mailboxes[last.idx].Domain)}
      [] last.op = "ReadMessage" ->
             {Param("action", <<"readMessage">>),
              Param("login", mailboxes[last.idx].Login),
              Param("domain", mailboxes[last.idx].Domain),
              Param("id", <<ToString(last.id)>>)}

\* C8: every request handed to the transport is a GET to the fixed base whose
\* query holds one action and the parameters of the operation, no more:
\* getDomainList alone for Domains; genRandomMailbox and count for
\* RandomAddresses; getMessages, login and domain for CheckInbox; readMessage,
\* login, domain and id for ReadMessage.
C8_RequestIsGetWithOperationParams ==
    last.op \in RemoteOps =>
        /\ last.ret.reqs # <<>>
        /\ \A r \in Range(last.ret.reqs) :
            /\ r.Method = "GET"
            /\ r.URL = <<"https://www.1secmail.com/api/v1/">>
            /\ Range(r.RawQuery) = ExpectedQuery
            /\ Len(r.RawQuery) = Cardinality(ExpectedQuery)

C8_Witness ==
    /\ last.op = "ReadMessage"
    /\ last.id = 639
    /\ mailboxes[last.idx].Login = <<"user">>
    /\ Len(last.ret.reqs) = 1
    /\ Param("id", <<"639">>) \in Range(last.ret.reqs[1].RawQuery)
    /\ Param("login", <<"user">>) \in Range(last.ret.reqs[1].RawQuery)

\* C9: every remote operation hands exactly one request to the transport,
\* whatever the outcome, and the constructors hand it none: the number of Do
\* calls is always the number of remote operations invoked.
C9_OneDoPerRemoteOperation ==
    /\ nDo = nOps
    /\ last.op \in RemoteOps => Len(last.ret.reqs) = 1

C9_Witness ==
    /\ nOps = 2
    /\ nDo = 2
    /\ Len(mailboxes) = 2
    /\ last.op = "ReadMessage"
    /\ ~last.trans.err.isNil
    /\ ~last.ret.err.isNil

\* C10: after any calls, the Domains registry has its initial members and
\* every mailbox the caller holds has the Login, Domain and transport it was
\* built with, so CheckInbox and ReadMessage on a mailbox send the login and
\* domain it was built with.
C10_RegistryAndMailboxesUnchanged ==
    /\ Domains = InitDomains
    /\ mailboxes = built
    /\ last.op \in {"CheckInbox", "ReadMessage"} =>
           \A r \in Range(last.ret.reqs) :
               /\ Param("login", built[last.idx].Login) \in Range(r.RawQuery)
               /\ Param("domain", built[last.idx].Domain) \in Range(r.RawQuery)

C10_Witness ==
    /\ nOps = 2
    /\ Len(built) = 2
    /\ built[1].Login # built[2].Login
    /\ built[1].API # built[2].API
    /\ last.op = "ReadMessage"
    /\ last.idx = 1
    /\ mailboxes = built

\* C11: whenever the transport hands back a response, the remote operation
\* closes the response body exactly once before it returns, on every path:
\* success, decode failure, a status other than 200, and a transport error
\* that comes with a response.
C11_BodyClosedExactlyOnce ==
    (last.op \in RemoteOps /\ ~last.trans.resp.isNil) =>
        /\ ~last.ret.panicked
        /\ last.ret.closes = 1

====
